---- MODULE Spec2Model ----
(***************************************************************************)
(* Model of reset.py: the device identifier reset of the editor's          *)
(* storage.json.  One run of reset_cursor_id is a sequence of steps        *)
(* (resolve path, mkdir, backup, load, generate, merge, open for writing,  *)
(* buffered writes, report); the file system, the wall clock and the       *)
(* platform are the environment.  Every step that performs I/O has an      *)
(* outcome in which the operating system reports an error.                 *)
(***************************************************************************)
EXTENDS Integers, Sequences, FiniteSets, TLC

(* ---------------------------- bounds ----------------------------------- *)
\* runs of the tool an operator starts one after the other
MaxRuns == 2
\* last tick of the wall clock
MaxClock == 2
\* number of distinct values the random draws of one identifier can produce
NumIds == 2
\* number of tokens that reach a file in one write (the buffer of the
\* writer, the block of a copy)
ChunkSize == 6

\* clock ticks in one second: strftime('%Y%m%d_%H%M%S') drops the fraction
TicksPerSecond == 2

Procs == {1, 2}

(* ---------------------------- JSON text -------------------------------- *)
MachineIdKey == "telemetry.machineId"
MacMachineIdKey == "telemetry.macMachineId"
DevDeviceIdKey == "telemetry.devDeviceId"
TelemetryKeys == {MachineIdKey, MacMachineIdKey, DevDeviceIdKey}

\* A file's content is a sequence of tokens.  A value is <<type, payload>>.
NoVal == <<"none", 0>>
Tok(t, k, v) == [t |-> t, k |-> k, v |-> v]
LB == Tok("lb", "", NoVal)
RB == Tok("rb", "", NoVal)
NL == Tok("nl", "", NoVal)
NUL == Tok("nul", "", NoVal)
Word == Tok("word", "", NoVal)
Scalar == Tok("scalar", "", NoVal)
Pair(k, v) == Tok("pair", k, v)

\* os.urandom(32).hex() and str(uuid.uuid4()) of the n-th possible draw
HexOf(n) == <<"hex", n>>
UuidOf(n) == <<"uuid", n>>

\* a Python dict: pairs in insertion order, keys unique
Entry(k, v) == [k |-> k, v |-> v]
DictKeys(d) == {d[i].k : i \in 1..Len(d)}

\* an update that only takes effect for a key the dict already has
DictSetExisting(d, k, v) ==
    [i \in 1..Len(d) |-> IF d[i].k = k THEN Entry(k, v) ELSE d[i]]

\* d[k] = v
DictSet(d, k, v) ==
    IF k \in DictKeys(d)
    THEN [i \in 1..Len(d) |-> IF d[i].k = k THEN Entry(k, v) ELSE d[i]]
    ELSE Append(d, Entry(k, v))

RECURSIVE FromPairs(_, _)
\* the dict json.load builds from the members of an object, in order
FromPairs(toks, d) ==
    IF toks = <<>> THEN d
    ELSE LET h == Head(toks) IN
         FromPairs(Tail(toks), IF h.t = "pair" THEN DictSet(d, h.k, h.v) ELSE d)

IsObjectText(text) ==
    /\ Len(text) >= 2
    /\ text[1] = LB
    /\ text[Len(text)] = RB
    /\ \A i \in 2..(Len(text) - 1) : text[i].t \in {"pair", "nl"}

\* a loader that takes text it cannot parse for an empty document
JsonLoadLenient(text) ==
    IF IsObjectText(text)
    THEN [kind |-> "dict", d |-> FromPairs(SubSeq(text, 2, Len(text) - 1), <<>>)]
    ELSE [kind |-> "dict", d |-> <<>>]

\* json.load: kind "dict" for an object, "other" for any other JSON value,
\* "error" (JSONDecodeError) for text that is not JSON
JsonLoad(text) ==
    IF IsObjectText(text)
    THEN [kind |-> "dict", d |-> FromPairs(SubSeq(text, 2, Len(text) - 1), <<>>)]
    ELSE IF text = <<Scalar>>
    THEN [kind |-> "other", d |-> <<>>]
    ELSE [kind |-> "error", d |-> <<>>]

\* json.dump(data, f, indent=2): one member per line
JsonDump(d) ==
    IF d = <<>> THEN <<LB, RB>>
    ELSE [i \in 1..(2 * Len(d) + 3) |->
            IF i = 1 THEN LB
            ELSE IF i = 2 * Len(d) + 3 THEN RB
            ELSE IF i % 2 = 0 THEN NL
            ELSE Pair(d[(i - 1) \div 2].k, d[(i - 1) \div 2].v)]

(* ---------------------------- files ------------------------------------ *)
NoFile == [exists |-> FALSE, content |-> <<>>]
FileOf(c) == [exists |-> TRUE, content |-> c]

Max(a, b) == IF a > b THEN a ELSE b
Min(a, b) == IF a < b THEN a ELSE b

\* a write that ignores the handle's position and appends
WriteAtEnd(content, off, chunk) == content \o chunk

\* a write of chunk at offset off: bytes beyond the end extend the file and
\* a gap left by a truncation reads as NUL
WriteAt(content, off, chunk) ==
    [i \in 1..Max(Len(content), off + Len(chunk)) |->
        IF i > off /\ i <= off + Len(chunk) THEN chunk[i - off]
        ELSE IF i <= Len(content) THEN content[i]
        ELSE NUL]

\* datetime.now().strftime('%Y%m%d_%H%M%S'): the second the tick falls in
Stamp(c) == c \div TicksPerSecond
Stamps == 0..(MaxClock \div TicksPerSecond)

\* a copy that creates the destination and copies nothing into it
Copy2Nothing(c) == <<>>

\* shutil.copy2: the destination gets the source's bytes
Copy2(c) == c

\* a check that takes every path to exist
OsPathExistsAlways(f) == TRUE

\* os.path.exists(file_path)
OsPathExists(f) == f.exists

(* ---------------------------- environment ------------------------------ *)
\* a resolver that falls back to the Linux location on an unknown platform
ResolveWithFallback(sys, ad) ==
    IF sys = "Windows" THEN (IF ad THEN "appdata" ELSE "TypeError")
    ELSE IF sys = "Darwin" THEN "library"
    ELSE "config"

\* get_storage_file: the location for the platform, or the exception raised
\* (Path(None) raises TypeError when APPDATA is not set)
Resolve(sys, ad) ==
    IF sys = "Windows" THEN (IF ad THEN "appdata" ELSE "TypeError")
    ELSE IF sys = "Darwin" THEN "library"
    ELSE IF sys = "Linux" THEN "config"
    ELSE "Unsupported"

Locations == {"appdata", "library", "config"}

Systems == {"Windows", "Darwin", "Linux", "FreeBSD"}

\* the configuration files an installation can hold before the first run
InitContents ==
    { <<LB, Pair("A", <<"num", 1>>), Pair(MachineIdKey, <<"str", 9>>), RB>>,
      <<LB, NL, Pair(DevDeviceIdKey, <<"num", 7>>), NL, Pair("A", <<"str", 1>>),
        NL, Pair("A", <<"num", 2>>), NL, RB>>,
      <<Scalar>>,
      <<Word, Word>>,
      <<>> }

VARIABLES
    system,     \* platform.system()
    appdata,    \* TRUE iff the environment variable APPDATA is set
    clock,      \* wall clock, in ticks
    dirExists,  \* the parent directory of storage.json exists
    file,       \* storage.json
    backups,    \* storage.json.backup_<stamp>, by stamp
    mode,       \* "seq": one operator; "conc": two invocations at once
    pc,         \* position of each invocation in reset_cursor_id
    runs,       \* runs started by each invocation slot
    storage,    \* local storage_file
    data,       \* local data
    ids,        \* locals machine_id, mac_machine_id, dev_device_id
    off,        \* file position of the handle opened for writing
    printed,    \* what the run wrote to standard output
    err,        \* the exception that ended the run
    failedAt,   \* the step that raised it
    ops,        \* file system and console effects of the current run
    drawn,      \* per identifier, how many distinct values were drawn so far
    bstamp,     \* stamp of the backup the current run wrote, -1 if none
    initFile,   \* storage.json before the first run
    file0,      \* storage.json when the current run started
    bak0,       \* the backups when the current run started
    prev        \* outcome of the previous run of the slot

vars == <<system, appdata, clock, dirExists, file, backups, mode, pc, runs,
          drawn, storage, data, ids, off, printed, err, failedAt, ops, bstamp,
          initFile, file0, bak0, prev>>

env == <<system, appdata>>
rand == drawn
locals == <<storage, data, ids, off, printed, err, failedAt, ops, bstamp>>
hist == <<initFile, file0, bak0, prev>>

NoIds == [m |-> 0, c |-> 0, u |-> 0]
NoData == [kind |-> "none", d |-> <<>>]
NoPrint == [has |-> FALSE, banner |-> FALSE, m |-> NoVal, c |-> NoVal, u |-> NoVal]

InitCommon ==
    /\ system \in Systems
    /\ appdata \in BOOLEAN
    /\ (system # "Windows" => ~appdata)
    /\ clock = 0
    /\ \/ /\ file = NoFile
          /\ dirExists \in BOOLEAN
       \/ /\ \E c \in InitContents : file = FileOf(c)
          /\ dirExists = TRUE
    /\ backups = [s \in Stamps |-> NoFile]
    /\ runs = [p \in Procs |-> 0]
    /\ drawn = NoIds
    /\ storage = [p \in Procs |-> "none"]
    /\ data = [p \in Procs |-> NoData]
    /\ ids = [p \in Procs |-> NoIds]
    /\ off = [p \in Procs |-> 0]
    /\ printed = [p \in Procs |-> NoPrint]
    /\ err = [p \in Procs |-> "none"]
    /\ failedAt = [p \in Procs |-> "none"]
    /\ ops = [p \in Procs |-> {}]
    /\ bstamp = [p \in Procs |-> -1]
    /\ initFile = file
    /\ file0 = [p \in Procs |-> file]
    /\ bak0 = [p \in Procs |-> backups]
    /\ prev = [p \in Procs |-> "none"]

Init ==
    /\ InitCommon
    /\ mode = "seq"
    /\ pc = [p \in Procs |-> IF p = 1 THEN "idle" ELSE "off"]

InitConc ==
    /\ InitCommon
    /\ mode = "conc"
    /\ pc = [p \in Procs |-> "idle"]

RunLimit == IF mode = "seq" THEN MaxRuns ELSE 1

(* ---------------------------- steps ------------------------------------ *)
\* an exception that is recorded and swallowed: the run goes on to the save
FailAndGoOn(p, e) ==
    /\ pc' = [pc EXCEPT ![p] = "open"]
    /\ err' = [err EXCEPT ![p] = e]
    /\ failedAt' = [failedAt EXCEPT ![p] = pc[p]]

\* an exception leaves reset_cursor_id: nothing after the raising step runs
Fail(p, e) ==
    /\ pc' = [pc EXCEPT ![p] = "failed"]
    /\ err' = [err EXCEPT ![p] = e]
    /\ failedAt' = [failedAt EXCEPT ![p] = pc[p]]

Goto(p, l) ==
    /\ pc' = [pc EXCEPT ![p] = l]
    /\ UNCHANGED <<err, failedAt>>

Did(p, o) == ops' = [ops EXCEPT ![p] = @ \cup {o}]

\* the wall clock advances
Tick ==
    /\ clock < MaxClock
    /\ clock' = clock + 1
    /\ UNCHANGED <<env, rand, dirExists, file, backups, mode, pc, runs, locals, hist>>

\* the operator runs the script: reset_cursor_id() is called
StartRun(p) ==
    /\ pc[p] \in {"idle", "done", "failed"}
    /\ runs[p] < RunLimit
    /\ runs' = [runs EXCEPT ![p] = @ + 1]
    /\ pc' = [pc EXCEPT ![p] = "resolve"]
    /\ prev' = [prev EXCEPT ![p] = pc[p]]
    /\ file0' = [file0 EXCEPT ![p] = file]
    /\ bak0' = [bak0 EXCEPT ![p] = backups]
    /\ storage' = [storage EXCEPT ![p] = "none"]
    /\ data' = [data EXCEPT ![p] = NoData]
    /\ ids' = [ids EXCEPT ![p] = NoIds]
    /\ off' = [off EXCEPT ![p] = 0]
    /\ printed' = [printed EXCEPT ![p] = NoPrint]
    /\ err' = [err EXCEPT ![p] = "none"]
    /\ failedAt' = [failedAt EXCEPT ![p] = "none"]
    /\ ops' = [ops EXCEPT ![p] = {}]
    /\ bstamp' = [bstamp EXCEPT ![p] = -1]
    /\ UNCHANGED <<env, rand, clock, dirExists, file, backups, mode, initFile>>

\* storage_file = get_storage_file()
GetStorageFile(p) ==
    /\ pc[p] = "resolve"
    /\ \/ /\ Resolve(system, appdata) \in Locations
          /\ storage' = [storage EXCEPT ![p] = Resolve(system, appdata)]
          /\ Goto(p, "mkdir")
       \/ /\ Resolve(system, appdata) \notin Locations
          /\ Fail(p, Resolve(system, appdata))
          /\ UNCHANGED storage
    /\ UNCHANGED <<env, rand, clock, dirExists, file, backups, mode, runs,
                   data, ids, off, printed, ops, bstamp, hist>>

\* storage_file.parent.mkdir(parents=True, exist_ok=True)
MkdirParent(p) ==
    /\ pc[p] = "mkdir"
    /\ \/ /\ dirExists
          /\ Goto(p, "backup")
          /\ UNCHANGED <<dirExists, ops>>
       \/ /\ ~dirExists
          /\ dirExists' = TRUE
          /\ Did(p, "mkdir")
          /\ Goto(p, "backup")
       \/ /\ ~dirExists
          /\ Fail(p, "OSError")
          /\ UNCHANGED <<dirExists, ops>>
    /\ UNCHANGED <<env, rand, clock, file, backups, mode, runs,
                   storage, data, ids, off, printed, bstamp, hist>>

\* backup_file(storage_file)
BackupFile(p) ==
    /\ pc[p] = "backup"
    /\ \/ /\ ~OsPathExists(file)
          /\ Goto(p, "load")
          /\ UNCHANGED <<backups, ops, bstamp>>
       \/ /\ OsPathExists(file)
          /\ backups' = [backups EXCEPT ![Stamp(clock)] = FileOf(Copy2(file.content))]
          /\ bstamp' = [bstamp EXCEPT ![p] = Stamp(clock)]
          /\ Did(p, "backup")
          /\ Goto(p, "load")
       \/ /\ file.exists
          /\ Fail(p, "OSError")
          /\ UNCHANGED <<backups, ops, bstamp>>
       \/ /\ file.exists
          /\ \E n \in {k * ChunkSize : k \in 0..Len(file.content)} :
                /\ n < Len(file.content)
                /\ backups' = [backups EXCEPT ![Stamp(clock)] =
                                  FileOf(Copy2(SubSeq(file.content, 1, n)))]
          /\ bstamp' = [bstamp EXCEPT ![p] = Stamp(clock)]
          /\ Did(p, "backup")
          /\ Fail(p, "OSError")
    /\ UNCHANGED <<env, rand, clock, dirExists, file, mode, runs,
                   storage, data, ids, off, printed, hist>>

\* if not storage_file.exists(): data = {} else: data = json.load(f)
LoadData(p) ==
    /\ pc[p] = "load"
    /\ \/ /\ ~file.exists
          /\ data' = [data EXCEPT ![p] = [kind |-> "dict", d |-> <<>>]]
          /\ Goto(p, "generate")
          /\ UNCHANGED ops
       \/ /\ file.exists
          /\ JsonLoad(file.content).kind # "error"
          /\ data' = [data EXCEPT ![p] = JsonLoad(file.content)]
          /\ Did(p, "read")
          /\ Goto(p, "generate")
       \/ /\ file.exists
          /\ JsonLoad(file.content).kind = "error"
          /\ Did(p, "read")
          /\ Fail(p, "JSONDecodeError")
          /\ UNCHANGED data
       \/ /\ file.exists
          /\ Fail(p, "OSError")
          /\ UNCHANGED <<data, ops>>
    /\ UNCHANGED <<env, rand, clock, dirExists, file, backups, mode, runs,
                   storage, ids, off, printed, bstamp, hist>>

\* The outcomes of one random draw.  The program only stores and prints the
\* values, so they matter up to equality: a draw either repeats one of the
\* n values drawn before or is new, and the new value is named n + 1.
Draws(n) == 1..Min(n + 1, NumIds)

\* machine_id, mac_machine_id = os.urandom(32).hex(), twice;
\* dev_device_id = str(uuid.uuid4())
GenerateIds(p) ==
    /\ pc[p] = "generate"
    /\ \E m \in Draws(drawn.m), c \in Draws(drawn.c), u \in Draws(drawn.u) :
          /\ ids' = [ids EXCEPT ![p] = [m |-> m, c |-> c, u |-> u]]
          /\ drawn' = [m |-> Max(drawn.m, m), c |-> Max(drawn.c, c),
                       u |-> Max(drawn.u, u)]
    /\ Goto(p, "merge")
    /\ UNCHANGED <<env, clock, dirExists, file, backups, mode, runs,
                   storage, data, off, printed, ops, bstamp, hist>>

\* a merge that starts from an empty document
MergedIntoEmpty(d, i) ==
    <<Entry(MachineIdKey, HexOf(i.m)), Entry(MacMachineIdKey, HexOf(i.c)),
      Entry(DevDeviceIdKey, UuidOf(i.u))>>

\* the three assignments data[key] = value, in order
Merged(d, i) ==
    DictSet(DictSet(DictSet(d, MachineIdKey, HexOf(i.m)),
                    MacMachineIdKey, HexOf(i.c)),
            DevDeviceIdKey, UuidOf(i.u))

\* data["telemetry.machineId"] = machine_id, and the two others
UpdateData(p) ==
    /\ pc[p] = "merge"
    /\ \/ /\ data[p].kind = "dict"
          /\ data' = [data EXCEPT ![p].d = Merged(@, ids[p])]
          /\ Goto(p, "open")
       \/ /\ data[p].kind # "dict"
          /\ Fail(p, "TypeError")
          /\ UNCHANGED data
    /\ UNCHANGED <<env, rand, clock, dirExists, file, backups, mode, runs,
                   storage, ids, off, printed, ops, bstamp, hist>>

\* open(storage_file, 'w'): creates the file or truncates it
OpenForWrite(p) ==
    /\ pc[p] = "open"
    /\ \/ /\ file' = FileOf(<<>>)
          /\ off' = [off EXCEPT ![p] = 0]
          /\ Did(p, "open_w")
          /\ Goto(p, "write")
       \/ /\ Fail(p, "OSError")
          /\ UNCHANGED <<file, off, ops>>
    /\ UNCHANGED <<env, rand, clock, dirExists, backups, mode, runs,
                   storage, data, ids, printed, bstamp, hist>>

Output(p) == JsonDump(data[p].d)
NextChunk(p) == SubSeq(Output(p), off[p] + 1, Min(off[p] + ChunkSize, Len(Output(p))))

\* json.dump(data, f, indent=2) and the close of f: the buffered text
\* reaches the file one chunk at a time, at the handle's own position
WriteChunk(p) ==
    /\ pc[p] = "write"
    /\ \/ /\ file' = FileOf(WriteAt(file.content, off[p], NextChunk(p)))
          /\ off' = [off EXCEPT ![p] = @ + Len(NextChunk(p))]
          /\ Did(p, "write")
          /\ IF off[p] + Len(NextChunk(p)) = Len(Output(p))
             THEN Goto(p, "report")
             ELSE Goto(p, "write")
       \/ /\ Fail(p, "OSError")
          /\ UNCHANGED <<file, off, ops>>
    /\ UNCHANGED <<env, rand, clock, dirExists, backups, mode, runs,
                   storage, data, ids, printed, bstamp, hist>>

\* a report that prints the device id under machineId and the reverse
ReportMislabelled(i) ==
    [has |-> TRUE, banner |-> TRUE, m |-> UuidOf(i.u), c |-> HexOf(i.c),
     u |-> HexOf(i.m)]

\* the banner and json.dumps({"machineId": machine_id, ...}, indent=2)
Report(i) ==
    [has |-> TRUE, banner |-> TRUE, m |-> HexOf(i.m), c |-> HexOf(i.c),
     u |-> UuidOf(i.u)]

\* print(banner); print(json.dumps({...}, indent=2))
PrintReport(p) ==
    /\ pc[p] = "report"
    /\ \/ /\ printed' = [printed EXCEPT ![p] = Report(ids[p])]
          /\ Did(p, "print")
          /\ Goto(p, "done")
       \/ /\ Fail(p, "PrintError")
          /\ UNCHANGED <<printed, ops>>
    /\ UNCHANGED <<env, rand, clock, dirExists, file, backups, mode, runs,
                   storage, data, ids, off, bstamp, hist>>

Next ==
    \/ Tick
    \/ \E p \in Procs : StartRun(p)
    \/ \E p \in Procs : GetStorageFile(p)
    \/ \E p \in Procs : MkdirParent(p)
    \/ \E p \in Procs : BackupFile(p)
    \/ \E p \in Procs : LoadData(p)
    \/ \E p \in Procs : GenerateIds(p)
    \/ \E p \in Procs : UpdateData(p)
    \/ \E p \in Procs : OpenForWrite(p)
    \/ \E p \in Procs : WriteChunk(p)
    \/ \E p \in Procs : PrintReport(p)

Spec == Init /\ [][Next]_vars
SpecConc == InitConc /\ [][Next]_vars

(* ---------------------------- properties ------------------------------- *)
\* What a JSON object text means, read off the text itself: its keys, and
\* for each key the value of its last member.
TextKeys(text) == {text[i].k : i \in {j \in 1..Len(text) : text[j].t = "pair"}}
TextValue(text, k) ==
    LET last == CHOOSE i \in 1..Len(text) :
                    /\ text[i].t = "pair" /\ text[i].k = k
                    /\ \A j \in (i + 1)..Len(text) :
                          ~(text[j].t = "pair" /\ text[j].k = k)
    IN text[last].v
Members(text) == Cardinality({i \in 1..Len(text) : text[i].t = "pair"})
MalformedText(text) ==
    text = <<>> \/ \E i \in 1..Len(text) : text[i].t \in {"word", "nul"}

Started(p) == runs[p] > 0
PastLoad == {"generate", "merge", "open", "write", "report", "done"}
\* the run got through its backup step
BackupStepDone(p) ==
    \/ pc[p] \in PastLoad \cup {"load"}
    \/ pc[p] = "failed" /\ failedAt[p] \notin {"resolve", "mkdir", "backup"}
\* the run got through its save
SaveDone(p) ==
    \/ pc[p] \in {"report", "done"}
    \/ pc[p] = "failed" /\ failedAt[p] = "report"
HoldsIds(text, i) ==
    /\ TelemetryKeys \subseteq TextKeys(text)
    /\ TextValue(text, MachineIdKey) = HexOf(i.m)
    /\ TextValue(text, MacMachineIdKey) = HexOf(i.c)
    /\ TextValue(text, DevDeviceIdKey) = UuidOf(i.u)

\* C1: after a successful run on a configuration file that held a JSON
\* object D, the saved document has the keys of D plus the three telemetry
\* keys and no other, every key of D other than the three has the value it
\* had in D, and the three hold the identifiers this run generated, whatever
\* D held under them.
C1_MergeKeepsOtherKeys ==
    \A p \in Procs :
        (pc[p] = "done" /\ file0[p].exists /\ IsObjectText(file0[p].content)) =>
            LET D == file0[p].content
                S == file.content
            IN /\ file.exists /\ IsObjectText(S)
               /\ TextKeys(S) = TextKeys(D) \cup TelemetryKeys
               /\ Members(S) = Cardinality(TextKeys(S))
               /\ \A k \in TextKeys(D) \ TelemetryKeys :
                     TextValue(S, k) = TextValue(D, k)
               /\ HoldsIds(S, ids[p])

\* a successful run over a document with unrelated keys, one of them twice,
\* and a number under a telemetry key
C1_Witness ==
    /\ pc[1] = "done"
    /\ file0[1].exists /\ IsObjectText(file0[1].content)
    /\ Members(file0[1].content) > Cardinality(TextKeys(file0[1].content))
    /\ TextValue(file0[1].content, DevDeviceIdKey)[1] = "num"
    /\ TextValue(file.content, "A") = <<"num", 2>>

C3_BackupsNeverOverwritten ==
    \A p \in Procs :
        (runs[p] >= 2 /\ prev[p] = "done" /\ pc[p] = "done"
            /\ file0[p].exists) =>
            /\ bstamp[p] \in Stamps
            /\ ~bak0[p][bstamp[p]].exists
            /\ \A s \in Stamps : bak0[p][s].exists => backups[s] = bak0[p][s]

\* C4: on a platform other than Windows, Darwin and Linux a run ends in
\* get_storage_file with the unsupported-platform error and has no effect:
\* no directory, no backup, no change of the configuration file, no report.
C4_UnsupportedNoWrites ==
    \A p \in Procs :
        (Started(p) /\ system \notin {"Windows", "Darwin", "Linux"}) =>
            /\ pc[p] \in {"resolve", "failed"}
            /\ (pc[p] = "failed" =>
                  err[p] = "Unsupported" /\ failedAt[p] = "resolve")
            /\ ops[p] = {}
            /\ file = file0[p]
            /\ backups = bak0[p]
            /\ ~printed[p].has
            /\ storage[p] = "none"

C4_Witness ==
    /\ system = "FreeBSD"
    /\ pc[1] = "failed" /\ err[1] = "Unsupported"
    /\ ~dirExists

\* C5: a run over a configuration file whose content is not JSON never gets
\* past the load step and never changes the file; when it fails in the load
\* step having read the file, the error is the parse error and a backup
\* holding the original content exists.
C5_MalformedFailsWithBackup ==
    \A p \in Procs :
        (Started(p) /\ file0[p].exists /\ MalformedText(file0[p].content)) =>
            /\ pc[p] \notin PastLoad
            /\ file = file0[p]
            /\ (pc[p] = "failed" /\ failedAt[p] = "load" /\ err[p] # "OSError" =>
                  /\ err[p] = "JSONDecodeError"
                  /\ \E s \in Stamps : backups[s] = FileOf(file0[p].content))

C5_Witness ==
    /\ pc[1] = "failed" /\ err[1] = "JSONDecodeError"
    /\ file0[1].content = <<Word, Word>>
    /\ \E s \in Stamps : backups[s] = FileOf(<<Word, Word>>)

\* C6: a run that found no configuration file loads the empty mapping, the
\* load and the merge raise nothing, and the document it saves has exactly
\* the three telemetry keys.
C6_FreshFileHasThreeKeys ==
    \A p \in Procs :
        (Started(p) /\ ~file0[p].exists) =>
            /\ (pc[p] = "generate" => data[p] = [kind |-> "dict", d |-> <<>>])
            /\ failedAt[p] \notin {"load", "merge"}
            /\ (SaveDone(p) =>
                  /\ file.exists /\ IsObjectText(file.content)
                  /\ TextKeys(file.content) = TelemetryKeys
                  /\ Members(file.content) = 3
                  /\ HoldsIds(file.content, ids[p]))

C6_Witness ==
    /\ pc[1] = "done" /\ ~file0[1].exists
    /\ file.exists /\ "mkdir" \in ops[1]

StepAfter(l) ==
    CASE l = "resolve" -> {"mkdir"}
      [] l = "mkdir" -> {"backup"}
      [] l = "backup" -> {"load"}
      [] l = "load" -> {"generate"}
      [] l = "generate" -> {"merge"}
      [] l = "merge" -> {"open"}
      [] l = "open" -> {"write"}
      [] l = "write" -> {"write", "report"}
      [] l = "report" -> {"done"}
      [] OTHER -> {}
BeforeSave == {"resolve", "mkdir", "backup", "load", "generate", "merge"}

\* C7: a run moves from each step to the next one of resolve, mkdir,
\* backup, load, generate, merge, save (open, write), report, or fails; an
\* error always ends the run; a failed run does nothing more (its effects
\* and output stay as they are until the operator starts a new run); and a
\* run that failed before the save never opened the file for writing, left
\* it as it found it, and printed no report.
C7_StepsInOrderFailureAborts ==
    [][\A p \in Procs :
        /\ (pc[p] \in BeforeSave \cup {"open", "write", "report"}
              /\ <<pc[p], ops[p], off[p], data[p], ids[p]>>
                   # <<pc'[p], ops'[p], off'[p], data'[p], ids'[p]>>
            => pc'[p] \in StepAfter(pc[p]) \cup {"failed"})
        /\ (err'[p] # "none" => pc'[p] = "failed")
        /\ (pc[p] = "failed" =>
              \/ runs'[p] = runs[p] + 1
              \/ /\ pc'[p] = "failed" /\ ops'[p] = ops[p]
                 /\ printed'[p] = printed[p] /\ file' = file /\ backups' = backups)
        /\ (pc'[p] = "failed" /\ failedAt'[p] \in BeforeSave =>
              /\ "open_w" \notin ops'[p] /\ "write" \notin ops'[p]
              /\ file' = file0'[p]
              /\ ~printed'[p].has /\ "print" \notin ops'[p])
        /\ ("write" \in ops'[p] => "open_w" \in ops'[p])
        /\ ("print" \in ops'[p] => "write" \in ops'[p] /\ pc'[p] = "done")
      ]_vars

\* a run that failed in the merge on a top-level value that is not an object
C7_Witness ==
    /\ pc[1] = "failed" /\ failedAt[1] = "merge" /\ err[1] = "TypeError"
    /\ file = FileOf(<<Scalar>>)
    /\ "backup" \in ops[1]

\* C8: whenever the configuration file no longer has the content C it had
\* when the run started, a backup file with content C exists.
C8_BackupBeforeFirstWrite ==
    \A p \in Procs :
        (Started(p) /\ file0[p].exists /\ file # file0[p]) =>
            \E s \in Stamps : backups[s] = FileOf(file0[p].content)

\* a save that failed after the first chunk: the file is partly written
C8_Witness ==
    /\ pc[1] = "failed" /\ failedAt[1] = "write"
    /\ file0[1].exists /\ file0[1].content # <<>>
    /\ Len(file.content) = ChunkSize
    /\ ~IsObjectText(file.content)

\* C9: a run has printed its report only if its save is complete, and the
\* three values it printed are the ones the configuration file holds under
\* the three telemetry keys.
C9_ReportMatchesFile ==
    \A p \in Procs :
        printed[p].has =>
            /\ pc[p] = "done"
            /\ "open_w" \in ops[p] /\ "write" \in ops[p]
            /\ off[p] = Len(JsonDump(data[p].d))
            /\ file.exists /\ IsObjectText(file.content)
            /\ TelemetryKeys \subseteq TextKeys(file.content)
            /\ printed[p].m = TextValue(file.content, MachineIdKey)
            /\ printed[p].c = TextValue(file.content, MacMachineIdKey)
            /\ printed[p].u = TextValue(file.content, DevDeviceIdKey)

\* the report of a second run, whose identifiers differ from the first's
C9_Witness ==
    /\ pc[1] = "done" /\ printed[1].has /\ runs[1] = 2
    /\ printed[1].m = HexOf(2)
    /\ file0[1].exists /\ TextKeys(file0[1].content) \cap TelemetryKeys # {}

BothDone == initFile.exists /\ \A p \in Procs : pc[p] = "done"

\* C10, as stated, for two invocations that both succeed: the final
\* document is complete, its unrelated keys are the original's, and its
\* three identifiers are those of one of the two invocations.
C10_LastWriterWins ==
    BothDone =>
        /\ IsObjectText(file.content)
        /\ TextKeys(file.content) = TextKeys(initFile.content) \cup TelemetryKeys
        /\ \A k \in TextKeys(initFile.content) \ TelemetryKeys :
              TextValue(file.content, k) = TextValue(initFile.content, k)
        /\ \E w \in Procs : HoldsIds(file.content, ids[w])

\* C10, amended: once both invocations have succeeded the final document is
\* complete, with the original's unrelated keys and values and the three
\* telemetry keys holding generated identifiers; the three need not come
\* from one invocation.
C10_CompleteDocumentMixedIds ==
    BothDone =>
        /\ file.exists /\ IsObjectText(file.content)
        /\ Members(file.content) = Cardinality(TextKeys(file.content))
        /\ TextKeys(file.content) = TextKeys(initFile.content) \cup TelemetryKeys
        /\ \A k \in TextKeys(initFile.content) \ TelemetryKeys :
              TextValue(file.content, k) = TextValue(initFile.content, k)
        /\ TextValue(file.content, MachineIdKey)[1] = "hex"
        /\ TextValue(file.content, MacMachineIdKey)[1] = "hex"
        /\ TextValue(file.content, DevDeviceIdKey)[1] = "uuid"

\* both invocations succeeded and the document holds the machine id of one
\* and the mac machine id of the other
C10_Witness ==
    /\ BothDone
    /\ "A" \in TextKeys(initFile.content)
    /\ \E p, q \in Procs :
          /\ ids[p].m # ids[q].m /\ ids[p].c # ids[q].c
          /\ TextValue(file.content, MachineIdKey) = HexOf(ids[p].m)
          /\ TextValue(file.content, MacMachineIdKey) = HexOf(ids[q].c)

====
